---- MODULE Spec2Model ----
(***************************************************************************)
(* A model of src/src/index.js, the L2TP/IPsec VPN action: run() reads the *)
(* inputs, installs the tools, writes five configuration files through     *)
(* createFileWithSudo, links the resolver file, starts the two daemons,    *)
(* polls for the tunnel in waitForVpnConnection and then rewires the       *)
(* routes.  Every `await` of the source is one step of the model; what the *)
(* external commands answer (exit status, output, duration) is chosen by   *)
(* the environment.                                                        *)
(***************************************************************************)
EXTENDS Integers, Sequences, FiniteSets, TLC

VARIABLES
    inputs,       \* the action's inputs as the workflow supplies them
    umask,        \* the process's file mode creation mask, <<u, g, o>>
    pc,           \* the await at which run() stands
    art,          \* index of the artifact createConfigFiles is writing
    fs,           \* the files this run has written: path -> [content, mode]
    dirs,         \* the directories known to exist
    resolvConf,   \* what /etc/resolv.conf points to
    warnings,     \* messages passed to core.warning
    issued,       \* the commands exec has run, status queries excepted
    xl2tpdLog,    \* content of /var/log/xl2tpd.log, or NoLog
    now,          \* Date.now(), in ms
    start,        \* waitForVpnConnection's `start`
    ticks,        \* iterations of the poll loop begun so far
    tickStart,    \* Date.now() - start when the loop test let the last tick begin
    ipsecOk,      \* the poll loop's locals
    pppOk,
    ipsecOutput,
    ifaceOutput,
    ipsecFailed,  \* this tick's `ipsec status` exited with an error
    pppFailed,    \* this tick's `ip a s ppp0` exited with an error
    pollResult,   \* how waitForVpnConnection ended
    routeOutput,  \* what `ip route get` printed, in the listener's chunks
    gateway,      \* startVPN's `gateway`
    hostRoutes,   \* host routes added to the routing table
    defaultDev,   \* the device of the default route
    cause,        \* the first error thrown and not caught below run()
    failure       \* the message run() handed to core.setFailed

envVars   == <<inputs, umask>>
fileVars  == <<art, fs, dirs>>
linkVars  == <<resolvConf, warnings>>
tickVars  == <<ipsecOk, pppOk, ipsecOutput, ifaceOutput, ipsecFailed, pppFailed>>
pollVars  == <<start, ticks, tickStart, tickVars, pollResult>>
routeVars == <<routeOutput, gateway, hostRoutes, defaultDev>>
vars == <<envVars, pc, fileVars, linkVars, issued, xl2tpdLog, now,
          pollVars, routeVars, cause, failure>>

----------------------------------------------------------------------------
(* Bounds of the model.                                                    *)

\* The longest a status query takes, in ms; a query takes 0 or this long.
SlowQuery == 4000

----------------------------------------------------------------------------
(* Program constants.                                                      *)

Timeout == 30000
Interval == 1000

----------------------------------------------------------------------------
(* The environment's choices.                                              *)

ServerInputs == {"", "203.0.113.5"}
UsernameInputs == {"", "alice"}
PasswordInputs == {"", "hunter2"}
PskInputs == {"", "s3cr3t"}

\* A key with a blank and quotes in it.
OddPsk == "my \"key\""

\* 022 is the usual mask; 077 a hardened one.
Umasks == {<<0, 2, 2>>, <<0, 7, 7>>}

QueryDurations == {0, SlowQuery}

NoLog == "<no such file>"
LogContents == <<"xl2tpd: start\n", "xl2tpd: start\npppd: LCP timeout\n">>

\* `ipsec status` texts: a list of lines, each a list of words.
IpsecOutputs ==
    { << <<"Security", "Associations", "(0", "up,", "1", "connecting):">>,
         <<"L2TP-PSK", "[1]:", "CONNECTING">> >>,
      << <<"Security", "Associations", "(1", "up,", "0", "connecting):">>,
         <<"L2TP-PSK", "[1]:", "ESTABLISHED", "2", "seconds", "ago">> >>,
      << <<"other", "[2]:", "ESTABLISHED", "9", "minutes", "ago">>,
         <<"L2TP-PSK", "[1]:", "CONNECTING">> >> }

\* `ip a s ppp0` texts, in the same form.
IfaceOutputs ==
    { << <<"4:", "ppp0:", "<POINTOPOINT,UP>", "mtu", "1410">>,
         <<"link/ppp">> >>,
      << <<"4:", "ppp0:", "<POINTOPOINT,UP>", "mtu", "1410">>,
         <<"link/ppp">>,
         <<"inet", "10.0.0.5", "peer", "10.0.0.1/32", "scope", "global", "ppp0">> >>,
      << <<"4:", "ppp0:", "<POINTOPOINT,UP>", "mtu", "1410">>,
         <<"inet6", "fe80::1/64", "scope", "link">> >> }

\* A word of `ip route get` output, with the lexical class the gateway
\* pattern tells apart: "ipv4" is a dotted quad of digits.
Word(w) == [class |-> "word", text |-> w]
IPv4(a) == [class |-> "ipv4", text |-> a]
IPv6(a) == [class |-> "ipv6", text |-> a]

\* `ip route get <server>` texts: the chunks the stdout listener is handed.
RouteOutputs ==
    { <<>>,
      << <<IPv4("203.0.113.5"), Word("via"), IPv4("10.1.0.1"), Word("dev"), Word("eth0")>> >>,
      << <<IPv4("203.0.113.5"), Word("dev"), Word("eth0"), Word("src"), IPv4("10.1.0.4")>> >>,
      << <<IPv4("203.0.113.5"), Word("via")>>, <<IPv4("10.1.0.1"), Word("dev"), Word("eth0")>> >>,
      << <<IPv4("203.0.113.5"), Word("via"), IPv6("fe80::1"), Word("dev"), Word("eth0")>> >>,
      << <<IPv4("203.0.113.5"), Word("via"), IPv4("10.1.0.1")>>,
         <<Word("cache"), Word("via"), IPv4("10.1.0.254")>> >> }

----------------------------------------------------------------------------
(* Errors.                                                                 *)

NoError == [kind |-> "none", detail |-> ""]
Error(kind, detail) == [kind |-> kind, detail |-> detail]

RECURSIVE Join(_, _)
Join(parts, sep) ==
    IF Len(parts) = 0 THEN ""
    ELSE IF Len(parts) = 1 THEN parts[1]
    ELSE parts[1] \o sep \o Join(Tail(parts), sep)

\* @actions/exec rejects when the command exits with a status other than 0.
ExecError(argv) == Error("exec", Join(argv, " "))

----------------------------------------------------------------------------
(* File modes and paths.                                                   *)

\* Bit k of the octal digit n.
Bit(n, k) == (n \div (2 ^ k)) % 2

\* The octal digit d with the bits of the mask digit m cleared: d & ~m.
ClearBits(d, m) ==
    Bit(d, 0) * (1 - Bit(m, 0))
    + 2 * Bit(d, 1) * (1 - Bit(m, 1))
    + 4 * Bit(d, 2) * (1 - Bit(m, 2))

\* fs.writeFile creates a file with mode 0o666 less the process's umask.
CreateMode(mask) == [i \in 1..3 |-> ClearBits(6, mask[i])]

\* chmod 600
Mode600 == <<6, 0, 0>>

\* No access at all for the group and for others.
OwnerOnly(mode) == mode[2] = 0 /\ mode[3] = 0

\* A path is kept as the list path.split('/') yields: '/etc/ipsec.conf' is
\* <<"", "etc", "ipsec.conf">>.

\* parts.pop()
Pop(parts) == parts[Len(parts)]

\* `/tmp/${path.split('/').pop()}`
TempFile(path) == "/tmp/" \o Pop(path)

\* path.substring(0, path.lastIndexOf('/'))
Dirname(path) == Join(SubSeq(path, 1, Len(path) - 1), "/")

\* The path as the string the source writes.
PathStr(path) == Join(path, "/")

WriteFile(files, name, content, mask) ==
    [f \in DOMAIN files \cup {name} |->
        IF f = name
        THEN [content |-> content,
              mode |-> IF name \in DOMAIN files THEN files[name].mode
                       ELSE CreateMode(mask)]
        ELSE files[f]]

\* mv keeps the file's content and mode.
MoveFile(files, from, to) ==
    [f \in (DOMAIN files \ {from}) \cup {to} |->
        IF f = to THEN files[from] ELSE files[f]]

ChmodFile(files, name, mode) ==
    [f \in DOMAIN files |->
        IF f = name THEN [files[f] EXCEPT !.mode = mode] ELSE files[f]]

----------------------------------------------------------------------------
(* createConfigFiles: the five artifacts, in the order they are written.   *)

\* Lines 29-52: the template's text up to ${server}.
IpsecConfHead ==
    "\nconfig setup\n\nconn L2TP-PSK\n"
    \o "    # Use IKEv1 for key exchange (IKEv2 is typically used in IPsec only setups, without L2TP)\n"
    \o "    keyexchange=ikev1\n\n"
    \o "    # Use these ciphers (see full list here https://wiki.strongswan.org/projects/strongswan/wiki/IKEv1CipherSuites):\n"
    \o "    # - aes128-sha256-modp2048: the most widely supported\n"
    \o "    # - aes256-sha256-modp2048: a stronger alternative, not as widely supported\n"
    \o "    # - aes256-sha512-modp4096: the strongest, but unlikely to be supported\n"
    \o "    ike=aes128-sha256-modp2048,aes256-sha256-modp2048,aes256-sha512-modp4096\n\n"
    \o "    # Start the connection when the IPsec service starts\n"
    \o "    auto=start\n\n"
    \o "    # Authenticate using a pre-shared key\n"
    \o "    authby=psk\n\n"
    \o "    # Use IPsec only as a transport mode and not a tunnel on its own\n"
    \o "    type=transport\n\n"
    \o "    # IP address of the VPN server\n"
    \o "    right="

IpsecConf(server) == IpsecConfHead \o server \o "\n"

\* The secrets line written as the other templates are, on a line of its own.
IpsecSecretsOnOwnLine(server, psk) ==
    "\n" \o server \o " : PSK \"" \o psk \o "\"\n"

IpsecSecrets(server, psk) == server \o " : PSK \"" \o psk \o "\""

\* Lines 58-75: the template's text up to ${username}.
PppOptionsHead ==
    "\n# L2TP cannot use EAP authentication so disable it\n"
    \o "refuse-eap\n"
    \o "# L2TP requires MS-CHAPv2 for authentication\n"
    \o "require-mschap-v2\n"
    \o "# Disable compression, since most of the traffic is already compressed\n"
    \o "# and compression can cause issues with some protocols\n"
    \o "noccp\n"
    \o "# Disable ppp authentication, since we are using L2TP/IPsec authentication\n"
    \o "noauth\n\n"
    \o "logfile /var/log/xl2tpd.log\n"
    \o "mtu 1410\nmru 1410\ndefaultroute\nusepeerdns\ndebug\n"
    \o "name "

PppOptions(username, password) ==
    PppOptionsHead \o username \o "\npassword " \o password \o "\n"

\* Lines 83-87: the template's text after ${server}.
Xl2tpdConfTail ==
    "\nppp debug = yes\n"
    \o "pppoptfile = /etc/ppp/options.l2tpd.client\n"
    \o "length bit = yes\n"
    \o "autodial = yes\n"

Xl2tpdConf(server) == "\n[lac vpn]\nlns = " \o server \o Xl2tpdConfTail

ResolvVpnConf == "\nnameserver 1.1.1.1\nnameserver 8.8.8.8\n"

Artifacts(server, username, password, psk) ==
    << [path |-> <<"", "etc", "ipsec.conf">>,
        content |-> IpsecConf(server)],
       [path |-> <<"", "etc", "ipsec.secrets">>,
        content |-> IpsecSecrets(server, psk)],
       [path |-> <<"", "etc", "ppp", "options.l2tpd.client">>,
        content |-> PppOptions(username, password)],
       [path |-> <<"", "etc", "xl2tpd", "xl2tpd.conf">>,
        content |-> Xl2tpdConf(server)],
       [path |-> <<"", "etc", "resolv-vpn.conf">>,
        content |-> ResolvVpnConf] >>

\* The artifacts of this run.
Arts == Artifacts(inputs.server, inputs.username, inputs.password, inputs.psk)

NArts == Len(Arts)

----------------------------------------------------------------------------
(* Status texts and the patterns the source tests them with.               *)

\* /L2TP-PSK.*ESTABLISHED/: on one line, L2TP-PSK and later ESTABLISHED.
IpsecEstablished(output) ==
    \E l \in 1..Len(output) :
        \E i, j \in 1..Len(output[l]) :
            /\ i < j
            /\ output[l][i] = "L2TP-PSK"
            /\ output[l][j] = "ESTABLISHED"

\* output.split('\n').some(line => line.trim().startsWith('inet '))
PppHasInet(output) ==
    \E l \in 1..Len(output) :
        /\ Len(output[l]) >= 2
        /\ output[l][1] = "inet"

\* data.toString().match(/via (\d+\.\d+\.\d+\.\d+)/): the first `via`
\* followed by a dotted quad in the chunk, or 0 for no match.
ViaMatch(chunk) ==
    LET hits == {i \in 1..(Len(chunk) - 1) :
                    /\ chunk[i] = Word("via")
                    /\ chunk[i + 1].class = "ipv4"}
    IN IF hits = {} THEN 0
       ELSE CHOOSE i \in hits : \A k \in hits : i <= k

\* The stdout listener, run on each chunk in turn: `gateway` afterwards.
RECURSIVE GatewayOf(_, _)
GatewayOf(chunks, gw) ==
    IF Len(chunks) = 0 THEN gw
    ELSE LET m == ViaMatch(Head(chunks))
         IN GatewayOf(Tail(chunks),
                      IF m # 0 THEN Head(chunks)[m + 1].text ELSE gw)

----------------------------------------------------------------------------
(* The initial state: nothing written, no daemon started, the default      *)
(* route on the physical interface.                                        *)

Init ==
    /\ inputs \in [server : ServerInputs, username : UsernameInputs,
                   password : PasswordInputs, psk : PskInputs]
    /\ umask \in Umasks
    /\ pc = "inputs"
    /\ art = 0
    /\ fs = <<>>
    /\ dirs = {"/etc", "/tmp"}
    /\ resolvConf = "/run/systemd/resolve/stub-resolv.conf"
    /\ warnings = <<>>
    /\ issued = <<>>
    /\ xl2tpdLog = NoLog
    /\ now = 0
    /\ start = 0
    /\ ticks = 0
    /\ tickStart = 0
    /\ ipsecOk = FALSE
    /\ pppOk = FALSE
    /\ ipsecOutput = <<>>
    /\ ifaceOutput = <<>>
    /\ ipsecFailed = FALSE
    /\ pppFailed = FALSE
    /\ pollResult = "none"
    /\ routeOutput = <<>>
    /\ gateway = ""
    /\ hostRoutes = {}
    /\ defaultDev = "eth0"
    /\ cause = NoError
    /\ failure = NoError

----------------------------------------------------------------------------
(* run(): the catch of lines 192-194 and the steps before the files.       *)

\* An error thrown at the current step reaches run's catch, which hands its
\* message to core.setFailed; nothing of run() is executed after that.
Throw(err) ==
    /\ pc' = "failed"
    /\ failure' = err
    /\ cause' = IF cause = NoError THEN err ELSE cause

\* exec(argv) has run and exited with status 0 (ok) or another.
Exec(argv, ok) == issued' = Append(issued, [argv |-> argv, ok |-> ok])

\* The first required input that is missing, or "" when all are supplied.
MissingInput ==
    IF inputs.server = "" THEN "server"
    ELSE IF inputs.username = "" THEN "username"
    ELSE IF inputs.password = "" THEN "password"
    ELSE IF inputs.psk = "" THEN "psk"
    ELSE ""

\* Lines 178-181: core.getInput(name, { required: true }) four times.
GetInputs ==
    /\ pc = "inputs"
    /\ IF MissingInput # ""
       THEN Throw(Error("input", "Input required and not supplied: " \o MissingInput))
       ELSE pc' = "apt_update" /\ UNCHANGED <<cause, failure>>
    /\ UNCHANGED <<envVars, fileVars, linkVars, issued, xl2tpdLog, now,
                   pollVars, routeVars>>

AptUpdateCmd == <<"sudo", "apt-get", "update">>
AptInstallCmd == <<"sudo", "apt-get", "install", "-y", "strongswan", "xl2tpd">>

\* installTools, line 172.
AptUpdate ==
    /\ pc = "apt_update"
    /\ \E ok \in BOOLEAN :
        /\ Exec(AptUpdateCmd, ok)
        /\ IF ok THEN pc' = "apt_install" /\ UNCHANGED <<cause, failure>>
           ELSE Throw(ExecError(AptUpdateCmd))
    /\ UNCHANGED <<envVars, fileVars, linkVars, xl2tpdLog, now,
                   pollVars, routeVars>>

\* AptInstall with its exit status ignored.
AptInstallIgnoringFailure ==
    /\ pc = "apt_install"
    /\ \E ok \in BOOLEAN :
        /\ Exec(AptInstallCmd, ok)
        /\ pc' = "stage"
        /\ art' = 1
    /\ UNCHANGED <<envVars, fs, dirs, linkVars, xl2tpdLog, now,
                   pollVars, routeVars, cause, failure>>

\* installTools, line 173; createConfigFiles begins with the first artifact.
AptInstall ==
    /\ pc = "apt_install"
    /\ \E ok \in BOOLEAN :
        /\ Exec(AptInstallCmd, ok)
        /\ IF ok
           THEN pc' = "stage" /\ art' = 1 /\ UNCHANGED <<cause, failure>>
           ELSE Throw(ExecError(AptInstallCmd)) /\ UNCHANGED art
    /\ UNCHANGED <<envVars, fs, dirs, linkVars, xl2tpdLog, now,
                   pollVars, routeVars>>

----------------------------------------------------------------------------
(* createFileWithSudo(path, content), lines 6-17, for artifact `art`.      *)

Path == Arts[art].path
MkdirCmd == <<"sudo", "mkdir", "-p", Dirname(Path)>>
MvCmd == <<"sudo", "mv", TempFile(Path), PathStr(Path)>>
ChmodCmd == <<"sudo", "chmod", "600", PathStr(Path)>>

\* Line 8: fs.writeFile(tempFile, content), as the unprivileged user.
Stage ==
    /\ pc = "stage"
    /\ \E ok \in BOOLEAN :
        IF ok
        THEN /\ fs' = WriteFile(fs, TempFile(Path), Arts[art].content, umask)
             /\ pc' = IF Dirname(Path) # "" THEN "mkdir" ELSE "mv"
             /\ UNCHANGED <<cause, failure>>
        ELSE /\ Throw(Error("writeFile", TempFile(Path)))
             /\ UNCHANGED fs
    /\ UNCHANGED <<envVars, art, dirs, linkVars, issued, xl2tpdLog, now,
                   pollVars, routeVars>>

\* Line 12: sudo mkdir -p dirname.
Mkdir ==
    /\ pc = "mkdir"
    /\ \E ok \in BOOLEAN :
        /\ Exec(MkdirCmd, ok)
        /\ IF ok
           THEN /\ dirs' = dirs \cup {Dirname(Path)}
                /\ pc' = "mv"
                /\ UNCHANGED <<cause, failure>>
           ELSE Throw(ExecError(MkdirCmd)) /\ UNCHANGED dirs
    /\ UNCHANGED <<envVars, art, fs, linkVars, xl2tpdLog, now,
                   pollVars, routeVars>>

\* Mv with its failure caught and logged, as createSymlinkWithSudo does.
MvBestEffort ==
    /\ pc = "mv"
    /\ \E ok \in BOOLEAN :
        /\ Exec(MvCmd, ok)
        /\ fs' = IF ok THEN MoveFile(fs, TempFile(Path), PathStr(Path)) ELSE fs
        /\ warnings' = IF ok THEN warnings
                       ELSE Append(warnings, ExecError(MvCmd).detail)
        /\ pc' = "chmod"
    /\ UNCHANGED <<envVars, art, dirs, resolvConf, xl2tpdLog, now,
                   pollVars, routeVars, cause, failure>>

\* Mv as `mv -n`: a file already at the path is left, the staged one too.
MvNoClobber ==
    /\ pc = "mv"
    /\ \E ok \in BOOLEAN :
        /\ Exec(MvCmd, ok)
        /\ IF ok
           THEN /\ fs' = IF PathStr(Path) \in DOMAIN fs THEN fs
                          ELSE MoveFile(fs, TempFile(Path), PathStr(Path))
                /\ pc' = "chmod"
                /\ UNCHANGED <<cause, failure>>
           ELSE Throw(ExecError(MvCmd)) /\ UNCHANGED fs
    /\ UNCHANGED <<envVars, art, dirs, linkVars, xl2tpdLog, now,
                   pollVars, routeVars>>

\* Line 15: sudo mv tempFile path.
Mv ==
    /\ pc = "mv"
    /\ \E ok \in BOOLEAN :
        /\ Exec(MvCmd, ok)
        /\ IF ok
           THEN /\ fs' = MoveFile(fs, TempFile(Path), PathStr(Path))
                /\ pc' = "chmod"
                /\ UNCHANGED <<cause, failure>>
           ELSE Throw(ExecError(MvCmd)) /\ UNCHANGED fs
    /\ UNCHANGED <<envVars, art, dirs, linkVars, xl2tpdLog, now,
                   pollVars, routeVars>>

\* Line 16: sudo chmod 600 path; then the next artifact, or the symlink.
Chmod ==
    /\ pc = "chmod"
    /\ \E ok \in BOOLEAN :
        /\ Exec(ChmodCmd, ok)
        /\ IF ok
           THEN /\ fs' = ChmodFile(fs, PathStr(Path), Mode600)
                /\ IF art < NArts
                   THEN pc' = "stage" /\ art' = art + 1
                   ELSE pc' = "symlink" /\ art' = 0
                /\ UNCHANGED <<cause, failure>>
           ELSE Throw(ExecError(ChmodCmd)) /\ UNCHANGED <<fs, art>>
    /\ UNCHANGED <<envVars, dirs, linkVars, xl2tpdLog, now,
                   pollVars, routeVars>>

----------------------------------------------------------------------------
(* createSymlinkWithSudo('/etc/resolv.conf', '/etc/resolv-vpn.conf').      *)

ResolvVpnPath == "/etc/resolv-vpn.conf"
LnCmd == <<"sudo", "ln", "-fs", ResolvVpnPath, "/etc/resolv.conf">>

\* Symlink without the try of line 20: a failed `ln` throws to run's catch.
SymlinkUncaught ==
    /\ pc = "symlink"
    /\ \E ok \in BOOLEAN :
        /\ Exec(LnCmd, ok)
        /\ IF ok
           THEN /\ resolvConf' = ResolvVpnPath
                /\ pc' = "ipsec_start"
                /\ UNCHANGED <<cause, failure>>
           ELSE Throw(ExecError(LnCmd)) /\ UNCHANGED resolvConf
    /\ UNCHANGED <<envVars, fileVars, warnings, xl2tpdLog, now, pollVars,
                   routeVars>>

\* Lines 19-25: a failure is caught and logged as a warning.
Symlink ==
    /\ pc = "symlink"
    /\ \E ok \in BOOLEAN :
        /\ Exec(LnCmd, ok)
        /\ IF ok
           THEN resolvConf' = ResolvVpnPath /\ UNCHANGED warnings
           ELSE /\ warnings' = Append(warnings, ExecError(LnCmd).detail)
                /\ UNCHANGED resolvConf
    /\ pc' = "ipsec_start"
    /\ UNCHANGED <<envVars, fileVars, xl2tpdLog, now, pollVars, routeVars,
                   cause, failure>>

----------------------------------------------------------------------------
(* startVPN: the daemons, lines 146-147.                                   *)

IpsecStartCmd == <<"sudo", "ipsec", "start">>
Xl2tpdCmd == <<"sudo", "xl2tpd", "-C", "/tmp/l2tp-control">>

\* IpsecStart with its exit status ignored.
IpsecStartIgnoringFailure ==
    /\ pc = "ipsec_start"
    /\ \E ok \in BOOLEAN :
        /\ Exec(IpsecStartCmd, ok)
        /\ pc' = "xl2tpd_start"
    /\ UNCHANGED <<envVars, fileVars, linkVars, xl2tpdLog, now,
                   pollVars, routeVars, cause, failure>>

\* Line 146: sudo ipsec start.
IpsecStart ==
    /\ pc = "ipsec_start"
    /\ \E ok \in BOOLEAN :
        /\ Exec(IpsecStartCmd, ok)
        /\ IF ok THEN pc' = "xl2tpd_start" /\ UNCHANGED <<cause, failure>>
           ELSE Throw(ExecError(IpsecStartCmd))
    /\ UNCHANGED <<envVars, fileVars, linkVars, xl2tpdLog, now,
                   pollVars, routeVars>>

\* Line 147, and on success line 99: start = Date.now().
Xl2tpdStart ==
    /\ pc = "xl2tpd_start"
    /\ \E ok \in BOOLEAN :
        /\ Exec(Xl2tpdCmd, ok)
        /\ IF ok
           THEN /\ pc' = "poll_loop"
                /\ start' = now
                /\ UNCHANGED <<cause, failure>>
           ELSE Throw(ExecError(Xl2tpdCmd)) /\ UNCHANGED start
    /\ UNCHANGED <<envVars, fileVars, linkVars, xl2tpdLog, now, ticks,
                   tickStart, tickVars, pollResult, routeVars>>

\* pppd, once xl2tpd runs, creates and appends to its log file.
DaemonLogs ==
    /\ pc \in {"poll_loop", "poll_ipsec", "poll_ppp", "poll_sleep"}
    /\ \E i \in 1..Len(LogContents) :
        /\ xl2tpdLog = IF i = 1 THEN NoLog ELSE LogContents[i - 1]
        /\ xl2tpdLog' = LogContents[i]
    /\ UNCHANGED <<envVars, pc, fileVars, linkVars, issued, now,
                   pollVars, routeVars, cause, failure>>

----------------------------------------------------------------------------
(* waitForVpnConnection(timeout = 30_000, interval = 1000), lines 98-141.  *)

TimeoutMessage ==
    "VPN connection timeout: IPsec or PPP interface not ready. Content of /var/log/xl2tpd.log:\n"

\* fs.readFile('/var/log/xl2tpd.log', 'utf8') rejects when there is no file.
ReadLogError == Error("readFile", "ENOENT: no such file or directory, open '/var/log/xl2tpd.log'")

\* Lines 139-140: the operand of `throw` awaits the log's content before the
\* Error is built, so a rejected read is what is thrown.
TimeoutThrown(log) ==
    IF log = NoLog THEN ReadLogError
    ELSE Error("timeout", TimeoutMessage \o log)

\* The loop test letting a tick begin when exactly `timeout` has elapsed.
LoopTestInclusive == now - start <= Timeout

\* Line 101: Date.now() - start < timeout.
LoopTest == now - start < Timeout

\* PollLoop reporting the timeout by a `return false` that startVPN, which
\* does not look at the result, takes for success.
PollLoopReturningFalse ==
    /\ pc = "poll_loop"
    /\ IF LoopTest
       THEN /\ pc' = "poll_ipsec"
            /\ tickStart' = now - start
            /\ ticks' = ticks + 1
            /\ ipsecOk' = FALSE
            /\ pppOk' = FALSE
            /\ ipsecOutput' = <<>>
            /\ ifaceOutput' = <<>>
            /\ ipsecFailed' = FALSE
            /\ pppFailed' = FALSE
            /\ UNCHANGED pollResult
       ELSE /\ pollResult' = "TimedOut"
            /\ pc' = "route_get"
            /\ UNCHANGED <<ticks, tickStart, tickVars>>
    /\ UNCHANGED <<envVars, fileVars, linkVars, issued, xl2tpdLog, now,
                   start, routeVars, cause, failure>>

\* Line 101, the loop test: a new tick (lines 102-103), or lines 139-140.
PollLoop ==
    /\ pc = "poll_loop"
    /\ IF LoopTest
       THEN /\ pc' = "poll_ipsec"
            /\ tickStart' = now - start
            /\ ticks' = ticks + 1
            /\ ipsecOk' = FALSE
            /\ pppOk' = FALSE
            /\ ipsecOutput' = <<>>
            /\ ifaceOutput' = <<>>
            /\ ipsecFailed' = FALSE
            /\ pppFailed' = FALSE
            /\ UNCHANGED <<pollResult, cause, failure>>
       ELSE /\ pollResult' = "TimedOut"
            /\ pc' = "failed"
            /\ failure' = TimeoutThrown(xl2tpdLog)
            /\ cause' = Error("timeout", TimeoutMessage \o
                                 (IF xl2tpdLog = NoLog THEN "" ELSE xl2tpdLog))
            /\ UNCHANGED <<ticks, tickStart, tickVars>>
    /\ UNCHANGED <<envVars, fileVars, linkVars, issued, xl2tpdLog, now,
                   start, routeVars>>

IpsecStatusCmd == <<"sudo ipsec status">>
PppStatusCmd == <<"ip a s ppp0">>

\* PollIpsec without the try of line 105: a failed query throws out of
\* waitForVpnConnection.
PollIpsecUncaught ==
    /\ pc = "poll_ipsec"
    /\ \E ok \in BOOLEAN, out \in IpsecOutputs, d \in QueryDurations :
        /\ now' = now + d
        /\ ipsecOutput' = out
        /\ ipsecFailed' = ~ok
        /\ IF ok
           THEN /\ ipsecOk' = IpsecEstablished(out)
                /\ pc' = "poll_ppp"
                /\ UNCHANGED <<cause, failure>>
           ELSE UNCHANGED ipsecOk /\ Throw(ExecError(IpsecStatusCmd))
    /\ UNCHANGED <<envVars, fileVars, linkVars, issued, xl2tpdLog,
                   start, ticks, tickStart, pppOk, ifaceOutput, pppFailed,
                   pollResult, routeVars>>

\* Lines 108-115: `sudo ipsec status`; exec throws into the catch of line 132.
PollIpsec ==
    /\ pc = "poll_ipsec"
    /\ \E ok \in BOOLEAN, out \in IpsecOutputs, d \in QueryDurations :
        /\ now' = now + d
        /\ ipsecOutput' = out
        /\ ipsecFailed' = ~ok
        /\ IF ok
           THEN ipsecOk' = IpsecEstablished(out) /\ pc' = "poll_ppp"
           ELSE UNCHANGED ipsecOk /\ pc' = "poll_sleep"
    /\ UNCHANGED <<envVars, fileVars, linkVars, issued, xl2tpdLog,
                   start, ticks, tickStart, pppOk, ifaceOutput, pppFailed,
                   pollResult,
                   routeVars, cause, failure>>

\* PollPpp asking for the match to have held in an earlier tick as well:
\* the first tick that matches sleeps on.
PollPppNeedingStability ==
    /\ pc = "poll_ppp"
    /\ \E ok \in BOOLEAN, out \in IfaceOutputs, d \in QueryDurations :
        /\ now' = now + d
        /\ ifaceOutput' = out
        /\ pppFailed' = ~ok
        /\ IF ok
           THEN /\ pppOk' = PppHasInet(out)
                /\ IF ipsecOk /\ pppOk' /\ ticks > 1
                   THEN pc' = "route_get" /\ pollResult' = "Ready"
                   ELSE pc' = "poll_sleep" /\ UNCHANGED pollResult
           ELSE UNCHANGED <<pppOk, pollResult>> /\ pc' = "poll_sleep"
    /\ UNCHANGED <<envVars, fileVars, linkVars, issued, xl2tpdLog,
                   start, ticks, tickStart, ipsecOk, ipsecOutput, ipsecFailed,
                   routeVars, cause, failure>>

\* PollPpp run with ignoreReturnCode: what a failed query printed is tested
\* as if the query had succeeded.
PollPppIgnoringExit ==
    /\ pc = "poll_ppp"
    /\ \E ok \in BOOLEAN, out \in IfaceOutputs, d \in QueryDurations :
        /\ now' = now + d
        /\ ifaceOutput' = out
        /\ pppFailed' = ~ok
        /\ pppOk' = PppHasInet(out)
        /\ IF ipsecOk /\ pppOk'
           THEN pc' = "route_get" /\ pollResult' = "Ready"
           ELSE pc' = "poll_sleep" /\ UNCHANGED pollResult
    /\ UNCHANGED <<envVars, fileVars, linkVars, issued, xl2tpdLog,
                   start, ticks, tickStart, ipsecOk, ipsecOutput, ipsecFailed,
                   routeVars, cause, failure>>

\* Lines 119-130: `ip a s ppp0`, then the test of both flags.
PollPpp ==
    /\ pc = "poll_ppp"
    /\ \E ok \in BOOLEAN, out \in IfaceOutputs, d \in QueryDurations :
        /\ now' = now + d
        /\ ifaceOutput' = out
        /\ pppFailed' = ~ok
        /\ IF ok
           THEN /\ pppOk' = PppHasInet(out)
                /\ IF ipsecOk /\ pppOk'
                   THEN pc' = "route_get" /\ pollResult' = "Ready"
                   ELSE pc' = "poll_sleep" /\ UNCHANGED pollResult
           ELSE UNCHANGED <<pppOk, pollResult>> /\ pc' = "poll_sleep"
    /\ UNCHANGED <<envVars, fileVars, linkVars, issued, xl2tpdLog,
                   start, ticks, tickStart, ipsecOk, ipsecOutput, ipsecFailed,
                   routeVars, cause, failure>>

\* PollSleep with a promise nothing resolves: the poller waits for good.
PollSleepNeverResolved ==
    /\ pc = "poll_sleep"
    /\ pc' = "poll_sleep"
    /\ UNCHANGED <<envVars, fileVars, linkVars, issued, xl2tpdLog, now,
                   pollVars, routeVars, cause, failure>>

\* PollSleep waking after half the interval.
PollSleepHalfInterval ==
    /\ pc = "poll_sleep"
    /\ now' = now + Interval \div 2
    /\ pc' = "poll_loop"
    /\ UNCHANGED <<envVars, fileVars, linkVars, issued, xl2tpdLog,
                   pollVars, routeVars, cause, failure>>

\* Line 136: the sleep of one interval, then back to the loop test.
PollSleep ==
    /\ pc = "poll_sleep"
    /\ now' = now + Interval
    /\ pc' = "poll_loop"
    /\ UNCHANGED <<envVars, fileVars, linkVars, issued, xl2tpdLog,
                   pollVars, routeVars, cause, failure>>

----------------------------------------------------------------------------
(* startVPN: the routes, lines 154-168.                                    *)

RouteGetCmd == <<"ip", "route", "get", inputs.server>>
RouteAddCmd == <<"ip", "route", "add", inputs.server, "via", gateway, "dev", "eth0">>
RouteReplaceCmd == <<"ip", "route", "replace", "default", "dev", "ppp0">>

GatewayError == Error("gateway", "Could not determine gateway to VPN server")

\* RouteGet without the test of line 165.
RouteGetUnchecked ==
    /\ pc = "route_get"
    /\ \E ok \in BOOLEAN, out \in RouteOutputs :
        /\ Exec(RouteGetCmd, ok)
        /\ routeOutput' = out
        /\ gateway' = GatewayOf(out, "")
        /\ IF ~ok THEN Throw(ExecError(RouteGetCmd))
           ELSE pc' = "route_add" /\ UNCHANGED <<cause, failure>>
    /\ UNCHANGED <<envVars, fileVars, linkVars, xl2tpdLog, now, pollVars,
                   hostRoutes, defaultDev>>

\* Lines 156-165: the query, its listener, and the test of `gateway`.
RouteGet ==
    /\ pc = "route_get"
    /\ \E ok \in BOOLEAN, out \in RouteOutputs :
        /\ Exec(RouteGetCmd, ok)
        /\ routeOutput' = out
        /\ gateway' = GatewayOf(out, "")
        /\ IF ~ok THEN Throw(ExecError(RouteGetCmd))
           ELSE IF gateway' = "" THEN Throw(GatewayError)
           ELSE pc' = "route_add" /\ UNCHANGED <<cause, failure>>
    /\ UNCHANGED <<envVars, fileVars, linkVars, xl2tpdLog, now, pollVars,
                   hostRoutes, defaultDev>>

\* RouteAdd with its exit status ignored, as with ignoreReturnCode.
RouteAddIgnoringFailure ==
    /\ pc = "route_add"
    /\ \E ok \in BOOLEAN :
        /\ Exec(RouteAddCmd, ok)
        /\ hostRoutes' = IF ok
                         THEN hostRoutes \cup
                              {[dst |-> inputs.server, via |-> gateway, dev |-> "eth0"]}
                         ELSE hostRoutes
        /\ pc' = "route_replace"
    /\ UNCHANGED <<envVars, fileVars, linkVars, xl2tpdLog, now, pollVars,
                   routeOutput, gateway, defaultDev, cause, failure>>

\* Line 167: ip route add <server> via <gateway> dev eth0.
RouteAdd ==
    /\ pc = "route_add"
    /\ \E ok \in BOOLEAN :
        /\ Exec(RouteAddCmd, ok)
        /\ IF ok
           THEN /\ hostRoutes' = hostRoutes \cup
                       {[dst |-> inputs.server, via |-> gateway, dev |-> "eth0"]}
                /\ pc' = "route_replace"
                /\ UNCHANGED <<cause, failure>>
           ELSE Throw(ExecError(RouteAddCmd)) /\ UNCHANGED hostRoutes
    /\ UNCHANGED <<envVars, fileVars, linkVars, xl2tpdLog, now, pollVars,
                   routeOutput, gateway, defaultDev>>

\* Line 168: ip route replace default dev ppp0; then run() logs the payload.
RouteReplace ==
    /\ pc = "route_replace"
    /\ \E ok \in BOOLEAN :
        /\ Exec(RouteReplaceCmd, ok)
        /\ IF ok
           THEN /\ defaultDev' = "ppp0"
                /\ pc' = "done"
                /\ UNCHANGED <<cause, failure>>
           ELSE Throw(ExecError(RouteReplaceCmd)) /\ UNCHANGED defaultDev
    /\ UNCHANGED <<envVars, fileVars, linkVars, xl2tpdLog, now, pollVars,
                   routeOutput, gateway, hostRoutes>>

----------------------------------------------------------------------------

Next ==
    \/ GetInputs
    \/ AptUpdate
    \/ AptInstall
    \/ Stage
    \/ Mkdir
    \/ Mv
    \/ Chmod
    \/ Symlink
    \/ IpsecStart
    \/ Xl2tpdStart
    \/ DaemonLogs
    \/ PollLoop
    \/ PollIpsec
    \/ PollPpp
    \/ PollSleep
    \/ RouteGet
    \/ RouteAdd
    \/ RouteReplace

Spec == Init /\ [][Next]_vars

\* Every status query returns and every sleep ends: an exec that has been
\* awaited resolves or rejects, the timer of line 136 fires, and the loop
\* test of line 101 is synchronous code.
PollFairness ==
    /\ WF_vars(PollLoop)
    /\ WF_vars(PollIpsec)
    /\ WF_vars(PollPpp)
    /\ WF_vars(PollSleep)

LiveSpec == Spec /\ PollFairness

----------------------------------------------------------------------------
(* createConfigFiles(server, username, password, psk), lines 27-96, called *)
(* on its own with any credentials, and called again with the same ones on *)
(* the machine the earlier call left.                                      *)

\* The most calls of createConfigFiles in a row.
MaxInvocations == 2

\* The calls of createConfigFiles that have returned: each ends with its `ln`.
Invocations == Len(SelectSeq(issued, LAMBDA c : c.argv = LnCmd))

ConfigInit ==
    /\ inputs \in [server : ServerInputs, username : UsernameInputs,
                   password : PasswordInputs, psk : PskInputs \cup {OddPsk}]
    /\ umask \in Umasks
    /\ pc = "stage"
    /\ art = 1
    /\ fs = <<>>
    /\ dirs = {"/etc", "/tmp"}
    /\ resolvConf = "/run/systemd/resolve/stub-resolv.conf"
    /\ warnings = <<>>
    /\ issued = <<>>
    /\ xl2tpdLog = NoLog
    /\ now = 0
    /\ start = 0
    /\ ticks = 0
    /\ tickStart = 0
    /\ ipsecOk = FALSE
    /\ pppOk = FALSE
    /\ ipsecOutput = <<>>
    /\ ifaceOutput = <<>>
    /\ ipsecFailed = FALSE
    /\ pppFailed = FALSE
    /\ pollResult = "none"
    /\ routeOutput = <<>>
    /\ gateway = ""
    /\ hostRoutes = {}
    /\ defaultDev = "eth0"
    /\ cause = NoError
    /\ failure = NoError

\* createConfigFiles has returned (line 95) and is called again with the same
\* credentials, under whatever umask the caller has by then.
ConfigAgain ==
    /\ pc = "ipsec_start"
    /\ Invocations < MaxInvocations
    /\ pc' = "stage"
    /\ art' = 1
    /\ umask' \in Umasks
    /\ UNCHANGED <<inputs, fs, dirs, linkVars, issued, xl2tpdLog, now,
                   pollVars, routeVars, cause, failure>>

ConfigNext ==
    \/ Stage
    \/ Mkdir
    \/ Mv
    \/ Chmod
    \/ Symlink
    \/ ConfigAgain

ConfigSpec == ConfigInit /\ [][ConfigNext]_vars

----------------------------------------------------------------------------
(* What the claims speak of.                                               *)

\* The positions in `issued` of the commands whose argv begins with `head`.
Issued(head) ==
    {i \in 1..Len(issued) :
        /\ Len(issued[i].argv) >= Len(head)
        /\ \A k \in 1..Len(head) : issued[i].argv[k] = head[k]}

RouteAdds == Issued(<<"ip", "route", "add">>)
RouteReplaces == Issued(<<"ip", "route", "replace">>)
RouteGets == Issued(<<"ip", "route", "get">>)

\* The host route to the server through `gw` on the physical interface.
HostRoute(gw) == [dst |-> inputs.server, via |-> gw, dev |-> "eth0"]

----------------------------------------------------------------------------
(* C1: the host route to the server is issued, and has succeeded, before   *)
(* the default route is replaced, never the reverse; when the host-route   *)
(* command fails the default route is not replaced.                        *)
C1_HostRouteBeforeDefault ==
    LET adds == RouteAdds
        replaces == RouteReplaces
    IN /\ \A j \in replaces :
            \E i \in adds :
                /\ i < j
                /\ issued[i].ok
                /\ issued[i].argv = <<"ip", "route", "add", inputs.server,
                                      "via", gateway, "dev", "eth0">>
       /\ \A i \in adds : \A j \in replaces : i < j
       /\ (\E i \in adds : ~issued[i].ok) =>
            (replaces = {} /\ defaultDev = "eth0")
       /\ defaultDev = "ppp0" => HostRoute(gateway) \in hostRoutes

\* The default route was replaced after the host route to 203.0.113.5.
C1_Witness ==
    /\ inputs.server = "203.0.113.5"
    /\ defaultDev = "ppp0"
    /\ RouteAdds # {}
    /\ RouteReplaces # {}

----------------------------------------------------------------------------
\* The chunks put end to end: the whole of what the command printed.
RECURSIVE Flatten(_)
Flatten(chunks) ==
    IF Len(chunks) = 0 THEN <<>> ELSE Head(chunks) \o Flatten(Tail(chunks))

\* The whole output, whatever its chunks, holds `via` and then a dotted quad.
HasVia(output) ==
    LET text == Flatten(output)
    IN \E i \in 1..(Len(text) - 1) :
        text[i] = Word("via") /\ text[i + 1].class = "ipv4"

(* C2: when the output of `ip route get <server>` holds no `via <ipv4>`,   *)
(* the run fails, and neither route command is ever issued.                *)
C2_NoGatewayNoRoutes ==
    (RouteGets # {} /\ ~HasVia(routeOutput)) =>
        /\ pc = "failed"
        /\ failure \in {GatewayError, ExecError(RouteGetCmd)}
        /\ (\A i \in RouteGets : issued[i].ok) => failure = GatewayError
        /\ RouteAdds = {}
        /\ RouteReplaces = {}
        /\ hostRoutes = {}
        /\ defaultDev = "eth0"

\* The query succeeded and printed a route without a gateway.
C2_Witness ==
    /\ RouteGets # {}
    /\ \A i \in RouteGets : issued[i].ok
    /\ routeOutput # <<>>
    /\ ~HasVia(routeOutput)
    /\ failure = GatewayError

----------------------------------------------------------------------------
\* The contents that carry a secret: the pre-shared key, the password.
SecretContents ==
    {IpsecSecrets(inputs.server, inputs.psk),
     PppOptions(inputs.username, inputs.password)}

(* C3: a file that holds secret content (the IPsec secrets, the PPP        *)
(* options with the password) is at no moment readable by the group or by  *)
(* others: not when staged, not between the move and the chmod.            *)
C3_SecretsOwnerOnly ==
    \A f \in DOMAIN fs :
        fs[f].content \in SecretContents => OwnerOnly(fs[f].mode)

----------------------------------------------------------------------------
(* C4: when the poller times out and the daemon's log cannot be read, the  *)
(* error raised, and reported by run, is still the timeout error.          *)
C4_TimeoutNotMasked ==
    (pollResult = "TimedOut" /\ xl2tpdLog = NoLog) =>
        /\ pc = "failed"
        /\ failure.kind = "timeout"

----------------------------------------------------------------------------
\* Both queries of the current tick completed and both texts match.
BothMatch ==
    /\ ~ipsecFailed
    /\ ~pppFailed
    /\ IpsecEstablished(ipsecOutput)
    /\ PppHasInet(ifaceOutput)

(* C5: in the first tick in which both status queries answer and the IPsec *)
(* text matches L2TP-PSK...ESTABLISHED and the ppp0 text has a line that   *)
(* begins with `inet `, the poller returns Ready in that tick: it does not *)
(* sleep, begins no further tick, and needs no match in an earlier tick.   *)
C5_ReadyInSameTick ==
    /\ [](pc = "poll_sleep" => ~BothMatch)
    /\ [][(pc = "poll_ppp" /\ BothMatch') =>
            /\ pc' = "route_get"
            /\ pollResult' = "Ready"
            /\ ticks' = ticks
            /\ now' - now \in QueryDurations]_vars
    /\ [](pollResult = "Ready" => BothMatch)

\* Ready in the very first tick: no earlier tick had matched.
C5_Witness ==
    /\ pollResult = "Ready"
    /\ ticks = 1
    /\ BothMatch

----------------------------------------------------------------------------
\* The log can be read, and the error raised carries what it holds now.
PayloadIsLog ==
    xl2tpdLog # NoLog => failure = Error("timeout", TimeoutMessage \o xl2tpdLog)

(* C6, as claimed: when the two predicates never hold in the same tick the *)
(* poller reaches TimedOut within one interval of the timeout, and the     *)
(* timeout error's payload is the log's content read at that moment.       *)
C6_TimedOutWithinOneInterval ==
    pollResult = "TimedOut" =>
        /\ now - start >= Timeout - Interval
        /\ now - start <= Timeout + Interval
        /\ PayloadIsLog

(* C6, as amended: the poller reaches TimedOut at the first loop test      *)
(* that finds the timeout elapsed: never before the timeout, and after a   *)
(* last tick that began before it, so later than the timeout by less than  *)
(* that tick's length, one interval plus the time its two status queries   *)
(* took; the payload is the log's content read at that moment.             *)
C6_TimedOutAfterLastTick ==
    /\ [](pollResult = "TimedOut" =>
            /\ now - start >= Timeout
            /\ tickStart < Timeout
            /\ now - start - Timeout < Interval + 2 * SlowQuery
            /\ ~BothMatch
            /\ PayloadIsLog)
    /\ [][(pc = "poll_loop" /\ now - start >= Timeout /\ pc' # pc) =>
            pollResult' = "TimedOut"]_vars
    /\ [][(pollResult # "TimedOut" /\ pollResult' = "TimedOut") =>
            (pc = "poll_loop" /\ now' = now)]_vars

\* Timed out more than one interval after the timeout, the log in hand.
C6_Witness ==
    /\ pollResult = "TimedOut"
    /\ now - start > Timeout + Interval
    /\ xl2tpdLog # NoLog
    /\ failure.kind = "timeout"

----------------------------------------------------------------------------
TickFailed == ipsecFailed \/ pppFailed

(* C7: a status query that fails ends neither the poller nor the run: the  *)
(* failure is swallowed, the poller sleeps one interval and, the timeout   *)
(* not yet reached, queries again.                                         *)
C7_QueryFailureSwallowed ==
    /\ [][(pc \in {"poll_ipsec", "poll_ppp"} /\ pc' # pc /\ TickFailed') =>
            /\ pc' = "poll_sleep"
            /\ pollResult' = "none"
            /\ failure' = NoError
            /\ cause' = NoError]_vars
    /\ [][(pc = "poll_sleep" /\ pc' # pc) =>
            /\ pc' = "poll_loop"
            /\ now' = now + Interval
            /\ failure' = NoError]_vars
    /\ [][(pc = "poll_loop" /\ TickFailed /\ now - start < Timeout /\ pc' # pc) =>
            /\ pc' = "poll_ipsec"
            /\ ticks' = ticks + 1]_vars
    /\ [](failure \notin {ExecError(IpsecStatusCmd), ExecError(PppStatusCmd)})

\* After a tick whose query failed the poller is back at its loop test.
C7_Witness ==
    /\ pc = "poll_loop"
    /\ TickFailed
    /\ ticks >= 1
    /\ pollResult = "none"
    /\ failure = NoError

----------------------------------------------------------------------------
\* run() failed while createFileWithSudo was writing artifact `art`.
FileFailed == pc = "failed" /\ art \in 1..NArts

Daemons == Issued(IpsecStartCmd) \cup Issued(Xl2tpdCmd)

\* The run stopped at the failing step, with that step's error.
AbortedAtStep ==
    /\ failure \in {Error("writeFile", TempFile(Path)), ExecError(MkdirCmd),
                    ExecError(MvCmd), ExecError(ChmodCmd)}
    /\ \A i \in 1..(Len(issued) - 1) : issued[i].ok
    /\ IF failure.kind = "exec"
       THEN /\ issued # <<>>
            /\ ~issued[Len(issued)].ok
            /\ failure = ExecError(issued[Len(issued)].argv)
       ELSE \A i \in 1..Len(issued) : issued[i].ok

\* Nothing of the artifacts after `art`, no symlink, no daemon.
NothingLater ==
    /\ \A k \in (art + 1)..NArts :
        /\ PathStr(Arts[k].path) \notin DOMAIN fs
        /\ TempFile(Arts[k].path) \notin DOMAIN fs
    /\ Issued(<<"sudo", "ln">>) = {}
    /\ Daemons = {}
    /\ resolvConf # ResolvVpnPath

NoPartialArtifact ==
    \A k \in 1..NArts :
        /\ TempFile(Arts[k].path) \notin DOMAIN fs
        /\ PathStr(Arts[k].path) \in DOMAIN fs =>
               fs[PathStr(Arts[k].path)].mode = Mode600

(* C8, as claimed: a failure at any step of createFileWithSudo aborts the  *)
(* run at once with the underlying cause; no later artifact is written, no *)
(* daemon launched, and no partial artifact stays: no staged copy, no file *)
(* at a final path in a mode other than owner-only.                        *)
C8_NoPartialArtifact ==
    FileFailed => (AbortedAtStep /\ NothingLater /\ NoPartialArtifact)

\* What the steps before the failing one left of artifact `art`.
LeftBehind ==
    /\ failure \in {ExecError(MkdirCmd), ExecError(MvCmd)} =>
        /\ TempFile(Path) \in DOMAIN fs
        /\ fs[TempFile(Path)] = [content |-> Arts[art].content,
                                 mode |-> CreateMode(umask)]
        /\ PathStr(Path) \notin DOMAIN fs
    /\ failure = ExecError(ChmodCmd) =>
        /\ TempFile(Path) \notin DOMAIN fs
        /\ fs[PathStr(Path)] = [content |-> Arts[art].content,
                                mode |-> CreateMode(umask)]
    /\ failure.kind = "writeFile" =>
        /\ TempFile(Path) \notin DOMAIN fs
        /\ PathStr(Path) \notin DOMAIN fs

(* C8, as amended: a failure at any step of createFileWithSudo aborts the  *)
(* run at once with the underlying cause; no later artifact is written and *)
(* no daemon launched.  What the earlier steps wrote stays: the staged     *)
(* copy when mkdir or mv fails, the file at its final path in the mode it  *)
(* was staged with when chmod fails.                                       *)
C8_FileFailureAborts ==
    FileFailed => (AbortedAtStep /\ NothingLater /\ LeftBehind)

\* The chmod of the secrets file failed: the file is in place, not owner-only.
C8_Witness ==
    /\ FileFailed
    /\ failure = ExecError(ChmodCmd)
    /\ art < NArts
    /\ PathStr(Path) \in DOMAIN fs
    /\ ~OwnerOnly(fs[PathStr(Path)].mode)

----------------------------------------------------------------------------
\* The failed commands, the caught `ln` of createSymlinkWithSudo apart.
FatalFailures ==
    {i \in 1..Len(issued) : ~issued[i].ok /\ issued[i].argv # LnCmd}

(* C9: a run ends established and routed (the poller Ready, both route     *)
(* commands completed), or it reports the first fatal cause through        *)
(* setFailed; after the first fatal error no step is executed, none is     *)
(* retried.                                                                *)
C9_RoutedOrFirstCause ==
    /\ pc = "done" =>
        /\ pollResult = "Ready"
        /\ \E i \in RouteAdds : issued[i].ok
        /\ \E i \in RouteReplaces : issued[i].ok
        /\ defaultDev = "ppp0"
        /\ FatalFailures = {}
        /\ cause = NoError
        /\ failure = NoError
    /\ pc = "failed" =>
        /\ cause # NoError
        /\ failure = cause
    /\ pc \notin {"done", "failed"} =>
        /\ FatalFailures = {}
        /\ cause = NoError
        /\ failure = NoError
    /\ FatalFailures \subseteq {Len(issued)}
    /\ FatalFailures # {} => pc = "failed"

----------------------------------------------------------------------------
\* The artifact is at its final path, with its content, owner-only.
Written(a) ==
    LET path == PathStr(a.path)
    IN /\ path \in DOMAIN fs
       /\ fs[path] = [content |-> a.content, mode |-> Mode600]
       /\ TempFile(a.path) \notin DOMAIN fs

\* createFileWithSudo has run to its end for the artifact.
ChmodDone(a) ==
    LET chmod == [argv |-> <<"sudo", "chmod", "600", PathStr(a.path)>>,
                  ok |-> TRUE]
    IN \E i \in 1..Len(issued) : issued[i] = chmod

\* All five artifacts are in place.
AllWritten ==
    LET arts == Arts
    IN /\ Len(arts) = 5
       /\ \A k \in 1..Len(arts) : Written(arts[k]) /\ ChmodDone(arts[k])

(* C10: `ipsec start` has been run, and has succeeded, before xl2tpd is    *)
(* started; the five artifacts are written before either daemon is         *)
(* started; when `ipsec start` fails xl2tpd is never started.              *)
C10_ConfigThenIpsecThenL2tp ==
    /\ [](LET ipsec == Issued(IpsecStartCmd)
              l2tp == Issued(Xl2tpdCmd)
          IN /\ \A j \in l2tp : \E i \in ipsec : i < j /\ issued[i].ok
             /\ (\E i \in ipsec : ~issued[i].ok) => l2tp = {})
    /\ [][(Daemons = {} /\ Daemons' # {}) => AllWritten]_vars
    /\ [][(Issued(Xl2tpdCmd) = {} /\ Issued(Xl2tpdCmd)' # {}) => AllWritten]_vars

\* xl2tpd was started.
C10_Witness ==
    /\ Issued(Xl2tpdCmd) # {}
    /\ Issued(IpsecStartCmd) # {}

----------------------------------------------------------------------------
\* The `ln` of createSymlinkWithSudo was run and failed.
LnFailed == \E i \in Issued(LnCmd) : ~issued[i].ok

(* C11: a failure of the resolver symlink is not fatal: it is logged as a  *)
(* warning, /etc/resolv.conf stays as it was, and the run goes on to start *)
(* the daemons just as after a successful symlink; the failure the run     *)
(* reports, if any, is never the symlink's.                                *)
C11_SymlinkFailureNotFatal ==
    /\ [][(pc = "symlink" /\ pc' # pc) =>
            /\ pc' = "ipsec_start"
            /\ failure' = NoError
            /\ cause' = NoError
            /\ UNCHANGED <<envVars, fileVars, xl2tpdLog, now, pollVars, routeVars>>
            /\ IF issued'[Len(issued')].ok
               THEN warnings' = warnings /\ resolvConf' = ResolvVpnPath
               ELSE Len(warnings') = Len(warnings) + 1 /\ resolvConf' = resolvConf]_vars
    /\ [](failure # ExecError(LnCmd) /\ cause # ExecError(LnCmd))
    /\ [](LnFailed => (Len(warnings) = 1 /\ resolvConf # ResolvVpnPath))

\* The symlink failed and the run went on to rewire the routes.
C11_Witness ==
    /\ LnFailed
    /\ warnings # <<>>
    /\ pc = "done"
    /\ defaultDev = "ppp0"

----------------------------------------------------------------------------
\* The files a call of createConfigFiles is to leave for these credentials:
\* each artifact at its path, with its content, in mode 600, and no other.
ConfigFiles(server, username, password, psk) ==
    LET arts == Artifacts(server, username, password, psk)
        paths == [k \in 1..Len(arts) |-> PathStr(arts[k].path)]
    IN [p \in {paths[k] : k \in 1..Len(arts)} |->
            LET k == CHOOSE k \in 1..Len(arts) : paths[k] = p
            IN [content |-> arts[k].content, mode |-> Mode600]]

(* C12: whenever createConfigFiles has returned, after its first call or   *)
(* after a later one with the same credentials, the files are the same     *)
(* function of the credentials alone: the five paths, each with its        *)
(* content byte for byte, each in mode 600, and no staged copy; so the     *)
(* state after the second call equals the state after the first.           *)
C12_ConfigIdempotent ==
    pc = "ipsec_start" =>
        /\ fs = ConfigFiles(inputs.server, inputs.username,
                            inputs.password, inputs.psk)
        /\ \A f \in DOMAIN fs : OwnerOnly(fs[f].mode)

\* The second call has returned, under a umask other than the usual one.
C12_Witness ==
    /\ pc = "ipsec_start"
    /\ Invocations = 2
    /\ umask = <<0, 7, 7>>
    /\ Cardinality(DOMAIN fs) = 5

----------------------------------------------------------------------------
\* The IPsec secrets file, staged and in place.
SecretsFiles == {"/tmp/ipsec.secrets", "/etc/ipsec.secrets"}

(* C13: for every server and key the content of the IPsec secrets file is  *)
(* the server, ` : PSK `, and the key in double quotes, and nothing else:  *)
(* its length is that of the server and of the key plus the nine           *)
(* characters between and around them.                                     *)
C13_SecretsContentExact ==
    \A f \in SecretsFiles \cap DOMAIN fs :
        /\ fs[f].content =
               Join(<<inputs.server, ":", "PSK", "\"" \o inputs.psk \o "\"">>, " ")
        /\ Len(fs[f].content) = Len(inputs.server) + 9 + Len(inputs.psk)

\* The secrets file is in place for a key with a blank and quotes in it.
C13_Witness ==
    /\ "/etc/ipsec.secrets" \in DOMAIN fs
    /\ inputs.server = "203.0.113.5"
    /\ inputs.psk = OddPsk
    /\ fs["/etc/ipsec.secrets"].content = "203.0.113.5 : PSK \"my \"key\"\""

----------------------------------------------------------------------------
\* The apt-get commands of installTools.
AptCmds == Issued(<<"sudo", "apt-get">>)

(* C14: when either apt-get command fails the run stops there and reports  *)
(* that command's failure: no artifact is staged or written, the resolver  *)
(* is not linked, no daemon is started; and no artifact is staged before   *)
(* both apt-get commands have succeeded.                                   *)
C14_InstallFailureFatal ==
    LET apt == AptCmds
    IN /\ \A i \in apt : ~issued[i].ok =>
            /\ pc = "failed"
            /\ failure = ExecError(issued[i].argv)
            /\ cause = failure
            /\ i = Len(issued)
            /\ art = 0
            /\ fs = <<>>
            /\ resolvConf # ResolvVpnPath
            /\ warnings = <<>>
            /\ hostRoutes = {}
            /\ defaultDev = "eth0"
       /\ (art # 0 \/ fs # <<>> \/ Len(issued) > 2) =>
            /\ apt = {1, 2}
            /\ issued[1] = [argv |-> AptUpdateCmd, ok |-> TRUE]
            /\ issued[2] = [argv |-> AptInstallCmd, ok |-> TRUE]

\* `apt-get install` failed after a successful `apt-get update`.
C14_Witness ==
    /\ Len(issued) = 2
    /\ issued[1] = [argv |-> AptUpdateCmd, ok |-> TRUE]
    /\ issued[2] = [argv |-> AptInstallCmd, ok |-> FALSE]
    /\ pc = "failed"

----------------------------------------------------------------------------
\* waitForVpnConnection is executing.
Polling == pc \in {"poll_loop", "poll_ipsec", "poll_ppp", "poll_sleep"}

(* C15: every execution of waitForVpnConnection ends, in Ready or in       *)
(* TimedOut, and the poller leaves its loop in no other way: not by an     *)
(* error of a status query, not by any other step of the run.              *)
C15_PollerTerminates ==
    /\ Polling ~> (~Polling /\ pollResult \in {"Ready", "TimedOut"})
    /\ [][(Polling /\ ~Polling') =>
            /\ pollResult = "none"
            /\ pollResult' \in {"Ready", "TimedOut"}
            /\ pollResult' = "Ready" => pc' = "route_get"
            /\ pollResult' = "TimedOut" => pc' = "failed"]_vars
    /\ [](Polling => pollResult = "none")

\* The poller ended in TimedOut after ticks whose queries all failed or
\* did not match.
C15_Witness ==
    /\ ~Polling
    /\ pollResult = "TimedOut"
    /\ ticks > 1

----------------------------------------------------------------------------
(* C16: in a run in which the tunnel is not established, because a daemon  *)
(* could not be started or because the poller timed out, /etc/resolv.conf  *)
(* has not been made to point to the VPN resolver file.                    *)
C16_ResolverOnlyWhenUp ==
    (pc = "failed" /\ pollResult # "Ready") => resolvConf # ResolvVpnPath

----------------------------------------------------------------------------
\* The routing commands of startVPN: the query, the add, the replace.
RouteCmds == Issued(<<"ip", "route">>)

\* startVPN is at, or past, its routing steps.
Routing == pc \in {"route_get", "route_add", "route_replace", "done"}

(* C17: no routing command is issued, and the routing table is not         *)
(* touched, unless waitForVpnConnection has returned Ready in this run;    *)
(* after a timeout of the poller the run has failed with no routing        *)
(* command issued, no host route added and the default route as it was.    *)
C17_RoutesOnlyAfterReady ==
    LET cmds == RouteCmds
    IN /\ (cmds # {} \/ Routing \/ gateway # "" \/ hostRoutes # {}
              \/ defaultDev # "eth0") => pollResult = "Ready"
       /\ pollResult = "TimedOut" =>
            /\ pc = "failed"
            /\ cmds = {}
            /\ hostRoutes = {}
            /\ defaultDev = "eth0"
       /\ \A i \in cmds : \E j \in Issued(Xl2tpdCmd) : j < i /\ issued[j].ok

\* The poller timed out and the run ended with the routes as they were.
C17_Witness ==
    /\ pollResult = "TimedOut"
    /\ pc = "failed"
    /\ RouteCmds = {}
    /\ defaultDev = "eth0"
    /\ hostRoutes = {}

----------------------------------------------------------------------------
(* C18: the poller returns Ready only at the end of a tick whose two       *)
(* queries both completed without error and whose two outputs both match;  *)
(* a tick begins with nothing kept of the ticks before it, and a tick in   *)
(* which a query failed goes to the sleep, never to Ready.                 *)
C18_ReadyWithinOneTick ==
    /\ [][(pollResult # "Ready" /\ pollResult' = "Ready") =>
            /\ pc = "poll_ppp"
            /\ ticks' = ticks
            /\ ~ipsecFailed
            /\ IpsecEstablished(ipsecOutput)
            /\ ipsecOutput' = ipsecOutput
            /\ ~pppFailed'
            /\ PppHasInet(ifaceOutput')]_vars
    /\ [][(pc = "poll_loop" /\ pc' = "poll_ipsec") =>
            /\ ~ipsecOk'
            /\ ~pppOk'
            /\ ipsecOutput' = <<>>
            /\ ifaceOutput' = <<>>
            /\ ~TickFailed']_vars
    /\ [][(pc = "poll_ipsec" /\ pc' = "poll_ppp") =>
            /\ ~ipsecFailed'
            /\ ipsecOk' = IpsecEstablished(ipsecOutput')
            /\ ticks' = ticks]_vars
    /\ [][(Polling /\ ~TickFailed /\ TickFailed') =>
            (pc' = "poll_sleep" /\ pollResult' = "none")]_vars
    /\ [](TickFailed => pollResult # "Ready")

\* Ready at the end of the second tick, one interval after the start.
C18_Witness ==
    /\ pollResult = "Ready"
    /\ ticks = 2
    /\ ~TickFailed
    /\ now - start = Interval

----------------------------------------------------------------------------
\* ceil(timeout / interval)
MaxTicks == (Timeout + Interval - 1) \div Interval

(* C19: the poller begins at most ceil(timeout / interval) ticks, 30 with  *)
(* the defaults: tick k begins when at least k - 1 intervals and less than *)
(* the timeout have elapsed.  A tick begins only at the loop test, and     *)
(* when that test finds the timeout elapsed the poller raises TimedOut     *)
(* with no further tick and no further status query.                       *)
C19_AtMostCeilTicks ==
    /\ [](MaxTicks = 30 /\ ticks <= MaxTicks)
    /\ [](ticks >= 1 =>
            ((ticks - 1) * Interval <= tickStart /\ tickStart < Timeout))
    /\ [][ticks' # ticks =>
            /\ pc = "poll_loop"
            /\ pc' = "poll_ipsec"
            /\ ticks' = ticks + 1
            /\ now - start < Timeout]_vars
    /\ [][(pc' \in {"poll_ipsec", "poll_ppp"} /\ pc' # pc) =>
            ticks' = ticks + (IF pc' = "poll_ipsec" THEN 1 ELSE 0)]_vars
    /\ [][(pc = "poll_loop" /\ now - start >= Timeout /\ pc' # pc) =>
            /\ pollResult' = "TimedOut"
            /\ ~Polling'
            /\ ticks' = ticks
            /\ now' = now]_vars

\* Thirty ticks, each with immediate answers, and then the timeout.
C19_Witness ==
    /\ ticks = MaxTicks
    /\ pollResult = "TimedOut"
    /\ now - start = Timeout

====
